---- MODULE Spec2Model ----
(***************************************************************************)
(* Model of main.py of host-x509-certificate-exporter: the resolution of   *)
(* the configuration (AppConfig), the construction of the gauges           *)
(* (X509Metrics.__init__), and the polling loop (run_metrics_loop, fetch). *)
(*                                                                         *)
(* A Python string is a sequence of tokens (<<"b", ":", "443">> is the     *)
(* string "b:443"); a Python dict is a function whose DOMAIN is its keys,  *)
(* so a missing key is a key that is not in the DOMAIN.                    *)
(***************************************************************************)
EXTENDS Integers, Sequences, FiniteSets, TLC

\* Bounds of the model.
MaxCycles == 2
MaxEnv == 2

\* main.py:36 and main.py:37, the defaults of the two metrics settings.
DefaultPort == 8932
DefaultPollingInterval == 43200

-----------------------------------------------------------------------------
(* Strings                                                                 *)

Digits == {"0", "1", "2", "3", "4", "5", "6", "7", "8", "9"}

DigitValue(t) ==
  CASE t = "0" -> 0 [] t = "1" -> 1 [] t = "2" -> 2 [] t = "3" -> 3
    [] t = "4" -> 4 [] t = "5" -> 5 [] t = "6" -> 6 [] t = "7" -> 7
    [] t = "8" -> 8 [] t = "9" -> 9

\* int(s) of a string of decimal digits.
RECURSIVE int(_)
int(s) ==
  IF s = <<>> THEN 0
  ELSE 10 * int(SubSeq(s, 1, Len(s) - 1)) + DigitValue(s[Len(s)])

\* The tokens that have a lower and an upper case form: <<lower, upper>>.
CasePairs ==
  { <<"x509_config_host_", "X509_CONFIG_HOST_">>,
    <<"x509_config_label_", "X509_CONFIG_LABEL_">>,
    <<"team", "TEAM">>,
    <<"env", "ENV">>,
    <<"host", "HOST">> }

\* str.lower() of one token.
lower(t) ==
  IF \E p \in CasePairs : p[2] = t
    THEN (CHOOSE p \in CasePairs : p[2] = t)[1]
    ELSE t

\* The tokens the character class [A-Z0-9_-]+ matches under re.IGNORECASE.
LabelNameTokens == {"TEAM", "team", "ENV", "env", "HOST", "host"} \cup Digits

\* str.split(":")
RECURSIVE split(_)
split(s) ==
  IF \A i \in 1..Len(s) : s[i] # ":" THEN <<s>>
  ELSE LET i == CHOOSE k \in 1..Len(s) :
                  s[k] = ":" /\ \A j \in 1..(k - 1) : s[j] # ":"
       IN <<SubSeq(s, 1, i - 1)>> \o split(SubSeq(s, i + 1, Len(s)))

\* dict_get(dictionary, key, default_value): the value, or the default when the
\* key is missing or its value is falsy (the empty string).
dict_get(dictionary, key, default_value) ==
  IF key \in DOMAIN dictionary
    THEN (IF dictionary[key] # <<>> THEN dictionary[key] ELSE default_value)
    ELSE default_value

-----------------------------------------------------------------------------
(* The process environment and the config document                         *)

\* os.environ as the sequence of its entries, in iteration order.
Env(name, value) == [name |-> name, value |-> value]

\* os.environ as a dict from the names that dict_get looks up.
EnvDict(env) ==
  [k \in {env[i].name : i \in 1..Len(env)} |->
     (CHOOSE e \in {env[i] : i \in 1..Len(env)} : e.name = k).value]

\* re.match(r"^X509_CONFIG_HOST_\d{1,}$", env, re.IGNORECASE | re.DOTALL)
MatchesHostPattern(name) ==
  /\ Len(name) >= 2
  /\ lower(name[1]) = "x509_config_host_"
  /\ \A i \in 2..Len(name) : name[i] \in Digits

\* re.match(r"^X509_CONFIG_LABEL_([A-Z0-9_-]+)$", env, re.IGNORECASE | re.DOTALL)
MatchesLabelPattern(name) ==
  /\ Len(name) >= 2
  /\ lower(name[1]) = "x509_config_label_"
  /\ \A i \in 2..Len(name) : name[i] \in LabelNameTokens

\* .group(1).lower() of a name the label pattern matches.
LabelGroupLower(name) == [i \in 1..(Len(name) - 1) |-> lower(name[i + 1])]

\* find_hosts_from_environment with a test for at least two values instead of two.
RECURSIVE find_hosts_at_least_two_values(_)
find_hosts_at_least_two_values(env) ==
  IF env = <<>> THEN <<>>
  ELSE LET values == split(Head(env).value)
           rest == find_hosts_at_least_two_values(Tail(env))
       IN IF MatchesHostPattern(Head(env).name) /\ Len(values) >= 2
            THEN <<[name |-> values[1], port |-> values[2]]>> \o rest
            ELSE rest

\* AppConfig.find_hosts_from_environment
RECURSIVE find_hosts_from_environment(_)
find_hosts_from_environment(env) ==
  IF env = <<>> THEN <<>>
  ELSE LET values == split(Head(env).value)
           rest == find_hosts_from_environment(Tail(env))
       IN IF MatchesHostPattern(Head(env).name) /\ Len(values) = 2
            THEN <<[name |-> values[1], port |-> values[2]]>> \o rest
            ELSE rest

\* AppConfig.find_labels_from_environment
RECURSIVE find_labels_from_environment(_)
find_labels_from_environment(env) ==
  IF env = <<>> THEN <<>>
  ELSE LET rest == find_labels_from_environment(Tail(env))
       IN IF MatchesLabelPattern(Head(env).name)
            THEN <<[name |-> LabelGroupLower(Head(env).name),
                    value |-> Head(env).value]>> \o rest
            ELSE rest

\* The name of a label is in the list: label['name'] in [x['name'] for x in labels]
NameIn(n, labels) == \E i \in 1..Len(labels) : labels[i].name = n

\* main.py:60-64, the loop that appends the environment's labels.
RECURSIVE merge_labels(_, _)
merge_labels(labels, env_labels) ==
  IF env_labels = <<>> THEN labels
  ELSE IF ~NameIn(Head(env_labels).name, labels)
         THEN merge_labels(Append(labels, Head(env_labels)), Tail(env_labels))
         ELSE merge_labels(labels, Tail(env_labels))

\* main.py:53-55
merge_hosts(hosts, env_hosts) ==
  IF Len(env_hosts) > 0 THEN hosts \o env_hosts ELSE hosts

\* main.py:35-40, the attributes before the file is read.
ConfigDefaults(env) ==
  [ metrics |->
      [ port |-> int(dict_get(EnvDict(env), <<"X509_CONFIG_METRICS_PORT">>,
                              <<"8", "9", "3", "2">>)),
        pollingInterval |->
          int(dict_get(EnvDict(env), <<"X509_CONFIG_METRICS_POLLING_INTERVAL">>,
                       <<"4", "3", "2", "0", "0">>)) ],
    hosts |-> <<>>,
    labels |-> <<>> ]

\* self.__dict__.update(settings)
dict_update(d, settings) ==
  [k \in DOMAIN d \cup DOMAIN settings |->
     IF k \in DOMAIN settings THEN settings[k] ELSE d[k]]

\* main.py:42-50. The document is one of: no file at the path, a file that
\* yaml cannot parse, an empty file (safe_load gives None) or a mapping.
\* update(None) raises TypeError, which `except yaml.YAMLError` does not catch.
LoadRaises(doc) == doc.kind = "empty"

LoadFile(attrs, doc) ==
  IF doc.kind = "mapping" THEN dict_update(attrs, doc.settings) ELSE attrs

\* AppConfig.__init__ when it returns: the attributes of the object.
AppConfig(env, doc) ==
  LET loaded == LoadFile(ConfigDefaults(env), doc)
      withHosts == [loaded EXCEPT !.hosts =
                      merge_hosts(loaded.hosts, find_hosts_from_environment(env))]
  IN [withHosts EXCEPT !.labels =
        merge_labels(withHosts.labels, find_labels_from_environment(env))]

-----------------------------------------------------------------------------
(* Certificates and labels                                                 *)

\* The x509 certificates a host may present: the validity window, the serial
\* number and the attributes of the issuer and subject names, each <<oid, value>>.
CertOld ==
  [ serial_number |-> <<"01">>, not_valid_before |-> 0, not_valid_after |-> 1,
    issuer |-> << <<"O", <<"acme">> >>, <<"CN", <<"ca-1">> >>, <<"CN", <<"ca-2">> >> >>,
    subject |-> << <<"CN", <<"a.example">> >> >> ]

CertNew ==
  [ serial_number |-> <<"02">>, not_valid_before |-> 1, not_valid_after |-> 3,
    issuer |-> << <<"O", <<"acme">> >>, <<"CN", <<"ca-1">> >> >>,
    subject |-> << <<"C", <<"US">> >>, <<"CN", <<"a.example">> >> >> ]

Certs == {CertOld, CertNew}

\* Python's None, as str() renders it for the sink.
None == <<"None">>

\* X509Metrics.get_oid_attribute: the first attribute of the oid, or None.
get_oid_attribute(nameObject, oid) ==
  IF \E i \in 1..Len(nameObject) : nameObject[i][1] = oid
    THEN nameObject[CHOOSE i \in 1..Len(nameObject) :
                      /\ nameObject[i][1] = oid
                      /\ \A j \in 1..(i - 1) : nameObject[j][1] # oid][2]
    ELSE None

\* main.py:105-120, the fixed label names of the three certificate gauges.
FixedLabels ==
  << <<"host">>, <<"issuer_C">>, <<"issuer_L">>, <<"issuer_O">>, <<"issuer_OU">>,
     <<"issuer_ST">>, <<"issuer_CN">>, <<"serial_number">>, <<"subject_C">>,
     <<"subject_L">>, <<"subject_O">>, <<"subject_OU">>, <<"subject_CN">>,
     <<"subject_ST">> >>

\* Labelnames without the merge of the config labels.
LabelnamesFixedOnly(config_labels) == FixedLabels

\* main.py:122, labelnames of the gauges: the fixed names, then every config label's name.
Labelnames(config_labels) ==
  FixedLabels \o [i \in 1..Len(config_labels) |-> config_labels[i].name]

\* f"{host['name']}:{host['port']}"
HostKey(host) == host.name \o <<":">> \o host.port

\* main.py:165-180, the dict of the fixed labels.
FixedLabelValues(host, cert) ==
  [n \in {FixedLabels[i] : i \in 1..Len(FixedLabels)} |->
     CASE n = <<"host">> -> HostKey(host)
       [] n = <<"issuer_C">> -> get_oid_attribute(cert.issuer, "C")
       [] n = <<"issuer_L">> -> get_oid_attribute(cert.issuer, "L")
       [] n = <<"issuer_O">> -> get_oid_attribute(cert.issuer, "O")
       [] n = <<"issuer_OU">> -> get_oid_attribute(cert.issuer, "OU")
       [] n = <<"issuer_ST">> -> get_oid_attribute(cert.issuer, "ST")
       [] n = <<"issuer_CN">> -> get_oid_attribute(cert.issuer, "CN")
       [] n = <<"serial_number">> -> cert.serial_number
       [] n = <<"subject_C">> -> get_oid_attribute(cert.subject, "C")
       [] n = <<"subject_L">> -> get_oid_attribute(cert.subject, "L")
       [] n = <<"subject_O">> -> get_oid_attribute(cert.subject, "O")
       [] n = <<"subject_OU">> -> get_oid_attribute(cert.subject, "OU")
       [] n = <<"subject_CN">> -> get_oid_attribute(cert.subject, "CN")
       [] n = <<"subject_ST">> -> get_oid_attribute(cert.subject, "ST")]

\* main.py:183-185, the loop that adds the custom labels.
RECURSIVE add_custom_labels(_, _)
add_custom_labels(labels, config_labels) ==
  IF config_labels = <<>> THEN labels
  ELSE LET label == Head(config_labels)
       IN IF label.name \notin DOMAIN labels
            THEN add_custom_labels(
                   [n \in DOMAIN labels \cup {label.name} |->
                      IF n = label.name THEN label.value ELSE labels[n]],
                   Tail(config_labels))
            ELSE add_custom_labels(labels, Tail(config_labels))

\* main.py:165-185, the labels of one host and its certificate.
ComposeLabels(host, cert, config_labels) ==
  add_custom_labels(FixedLabelValues(host, cert), config_labels)

\* Gauge.labels(**labels) raises ValueError unless the sorted keyword names are
\* the sorted labelnames: the same names, each once.
LabelsRejected(labelnames, labels) ==
  \/ {labelnames[i] : i \in 1..Len(labelnames)} # DOMAIN labels
  \/ \E i, j \in 1..Len(labelnames) : i # j /\ labelnames[i] = labelnames[j]

\* The series Gauge.labels(**labels) selects: the values in labelnames order.
Series(labelnames, labels) == [i \in 1..Len(labelnames) |-> labels[labelnames[i]]]

\* Gauge.labels(...).set(value) on the series of a gauge.
GaugeSet(gauge, series, value) ==
  [s \in DOMAIN gauge \cup {series} |-> IF s = series THEN value ELSE gauge[s]]

\* Expired with a comparison that is not strict.
ExpiredAtNotAfter(expiration_date, current) == IF expiration_date <= current THEN 1 ELSE 0

\* main.py:189, int(expiration_date < datetime.datetime.now(pytz.UTC))
Expired(expiration_date, current) == IF expiration_date < current THEN 1 ELSE 0

\* host['name'] and host['port'] are there: neither lookup raises KeyError.
HasNameAndPort(host) == {"name", "port"} \subseteq DOMAIN host

-----------------------------------------------------------------------------
(* The inputs: documents and environments                                  *)

HostA == [name |-> <<"a.example">>, port |-> <<"443">>]
HostB == [name |-> <<"b.example">>, port |-> <<"8443">>]
\* A hosts entry of the document that declares no port.
HostNoPort == [name |-> <<"c.example">>]

LabelTeam == [name |-> <<"team">>, value |-> <<"core">>]
LabelTeamAgain == [name |-> <<"team">>, value |-> <<"infra">>]
LabelUpperTeam == [name |-> <<"TEAM">>, value |-> <<"core">>]

EnvHost1 == Env(<<"X509_CONFIG_HOST_", "1">>, <<"b.example", ":", "443">>)
EnvHost2 == Env(<<"X509_CONFIG_HOST_", "2">>, <<"c.example">>)
EnvHost3 == Env(<<"X509_CONFIG_HOST_", "3">>, <<"c.example", ":", "443", ":", "x">>)
EnvHostLower == Env(<<"x509_config_host_", "4">>, <<"d.example", ":", "8443">>)
EnvHostNoDigits == Env(<<"X509_CONFIG_HOST_", "TEAM">>, <<"e.example", ":", "443">>)
EnvLabelTeam == Env(<<"X509_CONFIG_LABEL_", "TEAM">>, <<"ops">>)
EnvLabelTeamLower == Env(<<"X509_CONFIG_LABEL_", "team">>, <<"dev">>)
EnvLabelHost == Env(<<"X509_CONFIG_LABEL_", "HOST">>, <<"zzz">>)
EnvPort == Env(<<"X509_CONFIG_METRICS_PORT">>, <<"9", "1">>)
EnvPollingInterval == Env(<<"X509_CONFIG_METRICS_POLLING_INTERVAL">>, <<"6", "0">>)

EnvUniverse ==
  { EnvHost1, EnvHost2, EnvHost3, EnvHostLower, EnvHostNoDigits,
    EnvLabelTeam, EnvLabelTeamLower, EnvLabelHost, EnvPort, EnvPollingInterval }

\* The environments of at most n variables of the universe, in every order.
Environments(universe, n) ==
  { e \in UNION { [1..k -> universe] : k \in 0..n } :
      \A i, j \in 1..Len(e) : i # j => e[i] # e[j] }

\* A dict that has the key or not.
Optional(key, values) == {<<>>} \cup { [k \in {key} |-> v] : v \in values }

Documents(metrics, hosts, labels) ==
  { [kind |-> k, settings |-> <<>>] : k \in {"nofile", "yamlerror", "empty"} }
  \cup { [kind |-> "mapping", settings |-> dict_update(dict_update(m, h), l)] :
           m \in Optional("metrics", metrics),
           h \in Optional("hosts", hosts),
           l \in Optional("labels", labels) }

MetricsSections ==
  { [port |-> 9000], [pollingInterval |-> 30], [port |-> 9000, pollingInterval |-> 30] }

\* The inputs of the configuration resolution.
ConfigDocuments ==
  Documents(MetricsSections,
            { <<HostA>>, <<HostA, HostB>>, <<HostNoPort>> },
            { <<LabelTeam>>, <<LabelTeam, LabelTeamAgain>>, <<LabelUpperTeam>> })

ConfigEnvironments == Environments(EnvUniverse, MaxEnv)

\* The inputs of the polling loop.
PollingDocuments ==
  Documents({},
            { <<HostA>>, <<HostA, HostA>>, <<HostA, HostNoPort>>, <<HostNoPort, HostA>> },
            { <<LabelTeam>>, <<LabelTeam, LabelTeamAgain>> })

PollingEnvironments == Environments({EnvHost1, EnvLabelTeam, EnvLabelHost}, 1)

-----------------------------------------------------------------------------
(* The state                                                               *)

VARIABLES
  environ,          \* os.environ
  doc,              \* the document at the config path
  pc,               \* where the process is
  config,           \* the attributes of the AppConfig object
  polling_interval_seconds,  \* X509Metrics.polling_interval_seconds
  labelnames,       \* labelnames of cert_not_after, cert_not_before and expired
  not_valid_after,  \* gauge cert_not_after: series -> value
  not_valid_before, \* gauge cert_not_before: series -> value
  expired,          \* gauge expired: series -> value
  host_read_errors, \* gauge host_read_errors: host -> value
  read_errors,      \* gauge read_errors
  idx,              \* fetch: the position of the for loop in hosts
  error_count,      \* fetch: error_count
  now,              \* the UTC clock
  cycle,            \* history: the calls of fetch() so far
  outcome,          \* history: what happened to each host of this cycle so far
  writes,           \* history: the calls of read_errors.set so far
  sleeps            \* history: the calls of time.sleep so far

vars ==
  << environ, doc, pc, config, polling_interval_seconds, labelnames,
     not_valid_after, not_valid_before, expired, host_read_errors, read_errors,
     idx, error_count, now, cycle, outcome, writes, sleeps >>

inputs == << environ, doc >>
gauges == << not_valid_after, not_valid_before, expired, host_read_errors, read_errors >>
certGauges == << not_valid_after, not_valid_before, expired >>
history == << cycle, outcome, writes, sleeps >>

InitState ==
  /\ pc = "main"
  /\ config = <<>>
  /\ polling_interval_seconds = 0
  /\ labelnames = <<>>
  /\ not_valid_after = <<>>
  /\ not_valid_before = <<>>
  /\ expired = <<>>
  /\ host_read_errors = <<>>
  /\ read_errors = 0
  /\ idx = 0
  /\ error_count = 0
  /\ now = 1
  /\ cycle = 0
  /\ outcome = <<>>
  /\ writes = 0
  /\ sleeps = 0

Init ==
  /\ environ \in PollingEnvironments
  /\ doc \in PollingDocuments
  /\ InitState

InitConfig ==
  /\ environ \in ConfigEnvironments
  /\ doc \in ConfigDocuments
  /\ InitState

-----------------------------------------------------------------------------
(* main: the startup                                                       *)

\* main.py:213, config = AppConfig(config_file)
AppConfigInit ==
  /\ pc = "main"
  /\ IF LoadRaises(doc)
       THEN pc' = "startup_raised" /\ UNCHANGED config
       ELSE pc' = "configured" /\ config' = AppConfig(environ, doc)
  /\ UNCHANGED << inputs, polling_interval_seconds, labelnames, gauges, idx,
                  error_count, now, history >>

\* main.py:215, the print of config.metrics['port']
AnnouncePort ==
  /\ pc = "configured"
  /\ pc' = IF "port" \in DOMAIN config.metrics THEN "announced" ELSE "startup_raised"
  /\ UNCHANGED << inputs, config, polling_interval_seconds, labelnames, gauges,
                  idx, error_count, now, history >>

\* main.py:216, app_metrics = X509Metrics(config)
X509MetricsInit ==
  /\ pc = "announced"
  /\ IF "pollingInterval" \in DOMAIN config.metrics
       THEN /\ pc' = "constructed"
            /\ polling_interval_seconds' = config.metrics.pollingInterval
            /\ labelnames' = Labelnames(config.labels)
       ELSE /\ pc' = "startup_raised"
            /\ UNCHANGED << polling_interval_seconds, labelnames >>
  /\ UNCHANGED << inputs, config, gauges, idx, error_count, now, history >>

\* main.py:217-218, start_http_server and the call of run_metrics_loop
StartServer ==
  /\ pc = "constructed"
  /\ pc' = "loop"
  /\ UNCHANGED << inputs, config, polling_interval_seconds, labelnames, gauges,
                  idx, error_count, now, history >>

-----------------------------------------------------------------------------
(* run_metrics_loop and fetch                                              *)

\* BeginFetch with an error_count that fetch() does not start at 0.
BeginFetchKeepingCount ==
  /\ pc = "loop"
  /\ pc' = "fetch"
  /\ idx' = 1
  /\ cycle' = cycle + 1
  /\ outcome' = <<>>
  /\ UNCHANGED << inputs, config, polling_interval_seconds, labelnames, gauges,
                  error_count, now, writes, sleeps >>

\* main.py:138-140 and 149-150: the loop calls fetch(), which starts its count.
BeginFetch ==
  /\ pc = "loop"
  /\ pc' = "fetch"
  /\ idx' = 1
  /\ error_count' = 0
  /\ cycle' = cycle + 1
  /\ outcome' = <<>>
  /\ UNCHANGED << inputs, config, polling_interval_seconds, labelnames, gauges,
                  now, writes, sleeps >>

\* HostFailed with a handler that also resets the expired series of the host.
HostFailedResettingExpired(host, result) ==
  /\ error_count' = error_count + 1
  /\ host_read_errors' = GaugeSet(host_read_errors, HostKey(host), 1)
  /\ outcome' = Append(outcome, result)
  /\ expired' = [s \in DOMAIN expired |->
                   IF s[1] = HostKey(host) THEN 1 ELSE expired[s]]
  /\ UNCHANGED << not_valid_after, not_valid_before >>

\* main.py:191-193, the handler of a host whose name and port can be read.
HostFailed(host, result) ==
  /\ error_count' = error_count + 1
  /\ host_read_errors' = GaugeSet(host_read_errors, HostKey(host), 1)
  /\ outcome' = Append(outcome, result)
  /\ UNCHANGED certGauges

\* main.py:186-190, the updates of a host whose labels the gauges accept.
HostSucceeded(host, cert, labels) ==
  LET series == Series(labelnames, labels)
  IN /\ not_valid_after' = GaugeSet(not_valid_after, series, cert.not_valid_after)
     /\ not_valid_before' = GaugeSet(not_valid_before, series, cert.not_valid_before)
     /\ expired' = GaugeSet(expired, series, Expired(cert.not_valid_after, now))
     /\ host_read_errors' = GaugeSet(host_read_errors, HostKey(host), 0)
     /\ outcome' = Append(outcome, [result |-> "ok", cert |-> cert])
     /\ UNCHANGED error_count

\* main.py:152-193, one iteration of the for loop.
FetchHost ==
  /\ pc = "fetch"
  /\ idx <= Len(config.hosts)
  /\ LET host == config.hosts[idx]
     IN IF ~HasNameAndPort(host)
          \* KeyError at line 155, and again at line 193 in the handler: it leaves fetch.
          THEN /\ pc' = "fetch_raised"
               /\ error_count' = error_count + 1
               /\ outcome' = Append(outcome, [result |-> "keyerror"])
               /\ UNCHANGED << idx, gauges >>
          ELSE /\ pc' = "fetch"
               /\ idx' = idx + 1
               /\ UNCHANGED read_errors
               /\ \/ \E r \in {"unreachable", "badcert"} :
                       HostFailed(host, [result |-> r])
                  \/ \E cert \in Certs :
                       LET labels == ComposeLabels(host, cert, config.labels)
                       IN IF LabelsRejected(labelnames, labels)
                            THEN HostFailed(host, [result |-> "rejected", cert |-> cert])
                            ELSE HostSucceeded(host, cert, labels)
  /\ UNCHANGED << inputs, config, polling_interval_seconds, labelnames, now,
                  cycle, writes, sleeps >>

\* main.py:196, self.read_errors.set(error_count), and the return to the loop.
EndFetch ==
  /\ pc = "fetch"
  /\ idx > Len(config.hosts)
  /\ read_errors' = error_count
  /\ writes' = writes + 1
  /\ pc' = "sleep"
  /\ UNCHANGED << inputs, config, polling_interval_seconds, labelnames,
                  not_valid_after, not_valid_before, expired, host_read_errors,
                  idx, error_count, now, cycle, outcome, sleeps >>

\* main.py:141, time.sleep(self.polling_interval_seconds): the clock moves on.
Sleep ==
  /\ pc = "sleep"
  /\ cycle < MaxCycles
  /\ pc' = "loop"
  /\ now' = now + 1
  /\ sleeps' = sleeps + 1
  /\ UNCHANGED << inputs, config, polling_interval_seconds, labelnames, gauges,
                  idx, error_count, cycle, outcome, writes >>

Startup == AppConfigInit \/ AnnouncePort \/ X509MetricsInit \/ StartServer

Next ==
  \/ AppConfigInit
  \/ AnnouncePort
  \/ X509MetricsInit
  \/ StartServer
  \/ BeginFetch
  \/ FetchHost
  \/ EndFetch
  \/ Sleep

Spec == Init /\ [][Next]_vars

\* The startup alone, over the wider inputs of the configuration resolution.
SpecConfig == InitConfig /\ [][Startup]_vars

-----------------------------------------------------------------------------
(* Properties                                                              *)

\* The process is in run_metrics_loop and fetch has not raised.
InLoop == pc \in {"loop", "fetch", "sleep"}

\* AppConfig.__init__ has returned.
Resolved == pc \in {"configured", "announced", "constructed", "loop", "fetch", "sleep",
                    "fetch_raised"}

\* The last host the current cycle has processed, and what happened to it.
LastIndex == Len(outcome)
LastHost == config.hosts[LastIndex]
LastOutcome == outcome[LastIndex]
LastSeries ==
  Series(labelnames, ComposeLabels(LastHost, LastOutcome.cert, config.labels))

\* The entries of this cycle whose fetch failed.
FailedEntries == { i \in 1..Len(outcome) : outcome[i].result # "ok" }

\* C1: after every completed cycle (fetch() has returned: the loop sleeps, or
\* has slept and not yet called fetch() again), read_errors is the number of
\* entries of config.hosts that failed in that cycle, each entry counted once,
\* whatever the cycles before counted.
C1_ReadErrorsCountsThisCycle ==
  (pc \in {"sleep", "loop"} /\ cycle > 0) =>
     /\ Len(outcome) = Len(config.hosts)
     /\ read_errors = Cardinality(FailedEntries)

\* C1's case: the second cycle has completed over a list that names the same
\* target twice, both entries failed, and read_errors is 2.
C1_Witness ==
  /\ pc = "sleep"
  /\ cycle = 2
  /\ config.hosts = <<HostA, HostA>>
  /\ FailedEntries = {1, 2}
  /\ read_errors = 2

\* C2: every host of the list is processed whatever happens to the others (no
\* cycle ends before its last host), a host that succeeds has its three
\* certificate gauges set from its own certificate and host_read_errors 0, and a
\* host that fails has host_read_errors 1.
C2_EveryHostProcessedAndFlagged ==
  /\ pc # "fetch_raised"
  /\ (pc \in {"fetch", "sleep"} /\ LastIndex > 0) =>
       IF LastOutcome.result = "ok"
         THEN /\ not_valid_after[LastSeries] = LastOutcome.cert.not_valid_after
              /\ not_valid_before[LastSeries] = LastOutcome.cert.not_valid_before
              /\ LastSeries \in DOMAIN expired
              /\ host_read_errors[HostKey(LastHost)] = 0
         ELSE host_read_errors[HostKey(LastHost)] = 1
  /\ pc = "sleep" => Len(outcome) = Len(config.hosts)

\* C3: fetch() never raises: whatever the entries of config.hosts and whatever
\* happens to each host, no exception leaves fetch.
C3_FetchNeverRaises == pc # "fetch_raised"

\* One step of C4: a failed host leaves every series of the three certificate
\* gauges as it was, and changes host_read_errors for that host only; no series
\* is ever removed, and a series changes only with a successful fetch of the
\* host it belongs to; read_errors changes only when the cycle ends.
C4_Step ==
  LET processed == Len(outcome') = Len(outcome) + 1
      result == outcome'[Len(outcome')].result
      host == config.hosts[idx]
      kept(g, h) == \A s \in DOMAIN g :
                      /\ s \in DOMAIN h
                      /\ h[s] # g[s] => (processed /\ result = "ok" /\ s[1] = HostKey(host))
  IN /\ (processed /\ result = "keyerror") => UNCHANGED gauges
     /\ (processed /\ result \in {"unreachable", "badcert", "rejected"}) =>
          /\ UNCHANGED << not_valid_after, not_valid_before, expired, read_errors >>
          /\ host_read_errors'[HostKey(host)] = 1
          /\ \A h \in DOMAIN host_read_errors :
               h # HostKey(host) =>
                 (h \in DOMAIN host_read_errors' /\ host_read_errors'[h] = host_read_errors[h])
     /\ kept(not_valid_after, not_valid_after')
     /\ kept(not_valid_before, not_valid_before')
     /\ kept(expired, expired')
     /\ read_errors' # read_errors => writes' = writes + 1

\* C4: across every sequence of cycles, a cycle in which a host fails leaves the
\* existing cert_not_after, cert_not_before and expired series unchanged: they
\* keep what the last successful fetch that wrote them left.
C4_FailureKeepsCertificateSeries == [][C4_Step]_vars

\* C4's case: a host that succeeded in the first cycle has just failed in the
\* second, and its series of the first cycle is still there.
C4_Witness ==
  /\ pc = "fetch"
  /\ cycle = 2
  /\ LastIndex > 0
  /\ LastOutcome.result = "unreachable"
  /\ host_read_errors[HostKey(LastHost)] = 1
  /\ \E s \in DOMAIN expired : s[1] = HostKey(LastHost) /\ expired[s] = 0

\* C5: once the gauges are declared, the labels composed for any host and any
\* certificate have exactly the names of the gauges' labelnames: every name of
\* the schema gets a value, and no other name does.
C5_ComposedNamesAreSchemaNames ==
  pc \in {"constructed", "loop", "fetch", "sleep", "fetch_raised"} =>
    \A i \in 1..Len(config.hosts) : \A cert \in Certs :
      HasNameAndPort(config.hosts[i]) =>
        LET labels == ComposeLabels(config.hosts[i], cert, config.labels)
        IN /\ \A k \in 1..Len(labelnames) : labelnames[k] \in DOMAIN labels
           /\ \A n \in DOMAIN labels : \E k \in 1..Len(labelnames) : labelnames[k] = n

\* C5's case: a certificate was fetched for a host while the configuration has
\* a custom label and a custom label named like the fixed label "host".
C5_Witness ==
  /\ pc = "fetch"
  /\ LastIndex > 0
  /\ "cert" \in DOMAIN LastOutcome
  /\ NameIn(<<"host">>, config.labels)
  /\ NameIn(<<"team">>, config.labels)

\* The labels the document declares.
FileLabels ==
  IF doc.kind = "mapping" /\ "labels" \in DOMAIN doc.settings
    THEN doc.settings.labels ELSE <<>>

\* The hosts the document declares.
FileHosts ==
  IF doc.kind = "mapping" /\ "hosts" \in DOMAIN doc.settings
    THEN doc.settings.hosts ELSE <<>>

\* C6: the resolved labels hold no name twice, and a name that the document and
\* the environment both give keeps the document's value only.
C6_ResolvedLabelNamesUnique ==
  Resolved =>
    /\ \A i, j \in 1..Len(config.labels) :
         i # j => config.labels[i].name # config.labels[j].name
    /\ \A f \in 1..Len(FileLabels) : \A e \in 1..Len(environ) :
         (/\ Len(environ[e].name) = 2
          /\ lower(environ[e].name[1]) = "x509_config_label_"
          /\ <<lower(environ[e].name[2])>> = FileLabels[f].name) =>
            \A i \in 1..Len(config.labels) :
              config.labels[i].name = FileLabels[f].name =>
                \E g \in 1..Len(FileLabels) : config.labels[i] = FileLabels[g]

\* The number of ":" of a string.
Separators(value) == Cardinality({ i \in 1..Len(value) : value[i] = ":" })

\* An environment variable that contributes a host: its name is
\* X509_CONFIG_HOST_<digits> (in either case) and its value has one ":".
ContributesHost(e) ==
  /\ Len(e.name) >= 2
  /\ e.name[1] \in {"X509_CONFIG_HOST_", "x509_config_host_"}
  /\ \A i \in 2..Len(e.name) : e.name[i] \in Digits
  /\ Separators(e.value) = 1

\* C7: the resolved hosts are the document's hosts in their order, followed by
\* one host per contributing environment variable, in the order of the
\* environment, with the variable's value as name ":" port; no other variable
\* adds a host.
C7_ResolvedHostsAreFileThenEnvironment ==
  Resolved =>
    LET contributing == SelectSeq(environ, ContributesHost)
    IN /\ Len(config.hosts) = Len(FileHosts) + Len(contributing)
       /\ \A i \in 1..Len(FileHosts) : config.hosts[i] = FileHosts[i]
       /\ \A i \in 1..Len(contributing) :
            LET h == config.hosts[Len(FileHosts) + i]
            IN /\ DOMAIN h = {"name", "port"}
               /\ h.name \o <<":">> \o h.port = contributing[i].value

\* C7's case: the document declares two hosts, and the environment holds a
\* host variable with two separators and one with a single separator.
C7_Witness ==
  /\ pc = "configured"
  /\ environ = <<EnvHost3, EnvHost1>>
  /\ FileHosts = <<HostA, HostB>>
  /\ config.hosts = <<HostA, HostB, [name |-> <<"b.example">>, port |-> <<"443">>]>>

\* C8: a successful fetch sets expired to 1 when notAfter is strictly before
\* the clock and to 0 otherwise, so to 0 when notAfter is the clock's instant.
C8_ExpiredIffStrictlyBeforeNow ==
  (pc \in {"fetch", "sleep"} /\ LastIndex > 0) =>
     (LastOutcome.result = "ok" =>
        /\ expired[LastSeries] \in {0, 1}
        /\ expired[LastSeries] = 1 <=> LastOutcome.cert.not_valid_after < now
        /\ LastOutcome.cert.not_valid_after = now => expired[LastSeries] = 0)

\* C8's case: a host has just presented a certificate whose notAfter is the
\* current instant, and expired is 0 for it.
C8_Witness ==
  /\ pc = "fetch"
  /\ LastIndex > 0
  /\ LastOutcome.result = "ok"
  /\ LastOutcome.cert.not_valid_after = now
  /\ expired[LastSeries] = 0

\* C9: once in the loop the process stays in it forever, alternating cycles and
\* sleeps: the first cycle runs before any sleep, the hosts of cycle n are
\* fetched after n - 1 writes of read_errors and n - 1 sleeps, and each cycle
\* writes read_errors once, after its last host.
C9_CyclesAndSleepsAlternateForever ==
  /\ cycle > 0 => InLoop
  /\ pc = "fetch" => (writes = cycle - 1 /\ sleeps = cycle - 1)
  /\ pc = "sleep" => (writes = cycle /\ sleeps = cycle - 1 /\ idx > Len(config.hosts))
  /\ pc = "loop" => (writes = cycle /\ sleeps = cycle)

\* What the claim C10 expects of a metrics setting: the document's value, else
\* the environment's override, else the default.
ExpectedMetric(key, variable, default) ==
  IF /\ doc.kind = "mapping"
     /\ "metrics" \in DOMAIN doc.settings
     /\ key \in DOMAIN doc.settings.metrics
    THEN doc.settings.metrics[key]
    ELSE IF \E i \in 1..Len(environ) : environ[i].name = <<variable>>
           THEN int((CHOOSE e \in {environ[i] : i \in 1..Len(environ)} :
                       e.name = <<variable>>).value)
           ELSE default

\* C10: with a document that is a mapping, whichever of its keys are missing,
\* the startup raises nothing, and it reaches the loop with a port, a polling
\* interval, a host list and a label list.
C10_MissingKeysStillStartUp ==
  doc.kind = "mapping" =>
    /\ pc # "startup_raised"
    /\ pc = "loop" =>
         /\ {"metrics", "hosts", "labels"} \subseteq DOMAIN config
         /\ {"port", "pollingInterval"} \subseteq DOMAIN config.metrics
         /\ config.metrics.port =
              ExpectedMetric("port", "X509_CONFIG_METRICS_PORT", DefaultPort)
         /\ polling_interval_seconds =
              ExpectedMetric("pollingInterval", "X509_CONFIG_METRICS_POLLING_INTERVAL",
                             DefaultPollingInterval)

====
